---- MODULE Spec2Model ----
(***************************************************************************)
(* Model of the nutrient optimiser (optimize_nutrients.py) and of the      *)
(* product catalogue web service (app.py).                                 *)
(*                                                                         *)
(* Python floats are modelled as exact rationals <<numerator,denominator>> *)
(* in lowest terms with a positive denominator.  Every input of the model  *)
(* is a small rational, so the only effect of this choice is that binary   *)
(* rounding error (of the order of 1e-16) is left out: a component of a    *)
(* solution that is exactly 0 here may be a few 1e-17 above or below 0 in  *)
(* the code, where the active-set loop may then drop a product that stays  *)
(* in the active set here; either way that product is given no weight.     *)
(***************************************************************************)
EXTENDS Integers, Sequences, FiniteSets, TLC

----------------------------------------------------------------------------
(* Exact arithmetic standing for Python float arithmetic.                  *)

Abs(n) == IF n < 0 THEN -n ELSE n

RECURSIVE GCD(_, _)
GCD(a, b) == IF b = 0 THEN a ELSE GCD(b, a % b)

Rat(n, d) ==
    LET g == GCD(Abs(n), Abs(d))
        s == IF d < 0 THEN -1 ELSE 1
    IN  <<(s * n) \div g, (s * d) \div g>>

R(n) == <<n, 1>>

\* sums and products reduce by common factors before they multiply, which
\* keeps every intermediate value as small as the result allows
RAdd(x, y) ==
    LET g == GCD(x[2], y[2])
    IN  Rat(x[1] * (y[2] \div g) + y[1] * (x[2] \div g), (x[2] \div g) * y[2])

RNeg(x) == <<-x[1], x[2]>>

RSub(x, y) == RAdd(x, RNeg(y))

RMul(x, y) ==
    LET g1 == GCD(Abs(x[1]), y[2])
        g2 == GCD(Abs(y[1]), x[2])
    IN  <<(x[1] \div g1) * (y[1] \div g2), (x[2] \div g2) * (y[2] \div g1)>>

RDiv(x, y) ==
    RMul(x, IF y[1] < 0 THEN <<-y[2], -y[1]>> ELSE <<y[2], y[1]>>)

RLt(x, y) ==
    LET g == GCD(x[2], y[2])
    IN  x[1] * (y[2] \div g) < y[1] * (x[2] \div g)

RLe(x, y) ==
    LET g == GCD(x[2], y[2])
    IN  x[1] * (y[2] \div g) <= y[1] * (x[2] \div g)

RAbs(x) == <<Abs(x[1]), x[2]>>

\* math.floor
RFloor(x) == x[1] \div x[2]

\* A Python list or dict is a stored value: List(f) is the function f with
\* every element computed once, where a function expression alone would
\* be computed again at each application.
List(f) == f @@ << >>

RECURSIVE RSum(_)
RSum(s) == IF s = <<>> THEN R(0) ELSE RAdd(Head(s), RSum(Tail(s)))

\* faulty variant of js_round: rounds down instead of to the nearest
js_round_down(x) == RFloor(x)

\* def js_round(x): return math.floor(x + 0.5)
js_round(x) == RFloor(RAdd(x, <<1, 2>>))

----------------------------------------------------------------------------
(* Module constants of optimize_nutrients.py.                              *)

NUT_KEYS ==
    << "protein", "saturatedFat", "unsaturatedFat", "simpleCarbs",
       "complexCarbs", "solubleFiber", "insolubleFiber", "calories" >>

NutKeySet == {NUT_KEYS[k] : k \in 1..Len(NUT_KEYS)}

WEIGHTS ==
    [key \in NutKeySet |->
        CASE key = "protein"  -> 2
          [] key = "calories" -> 3
          [] OTHER            -> 1]

\* max_iter=10, the default of run_iterative_optimization
max_iter == 10

\* abs(aug[pivot][col]) < 1e-12 : the tolerance is TolRoot^(-2)
TolRoot == 1000000

BelowTol(x) ==
    \/ x[1] = 0
    \/ /\ Abs(x[1]) <= 2000
       /\ Abs(x[1]) * TolRoot <= (x[2] - 1) \div TolRoot

----------------------------------------------------------------------------
(* run_iterative_optimization: the pieces of one refinement iteration.     *)
(* Python lists are 0-based; the sequences below are 1-based.              *)

Range(s) == {s[i] : i \in 1..Len(s)}

\* step_vals = {idx: products[idx]['step'] ...}
step_vals(products, idx) == products[idx].step

\* max_vals = {idx: products[idx]['max_weight'] ...}
max_vals(products, idx) == products[idx].max_weight

\* faulty variant of Eligible: looks at the remaining capacity alone
EligibleByCapacity(products, var_add, idx) ==
    RLe(RDiv(step_vals(products, idx), R(2)),
        RSub(max_vals(products, idx), var_add[idx]))

\* the eligibility test of the list comprehension at the head of the loop
Eligible(products, var_add, idx) ==
    /\ RLt(R(0), step_vals(products, idx))
    /\ RLe(RDiv(step_vals(products, idx), R(2)),
           RSub(max_vals(products, idx), var_add[idx]))

\* active = [idx for idx in active if ...]
FilterActive(products, var_add, active) ==
    SelectSeq(active, LAMBDA idx : Eligible(products, var_add, idx))

\* pmat.append([p[k] / 100.0 for k in nut_keys])
pmat(products, active) ==
    List([i \in 1..Len(active) |->
        List([k \in 1..Len(NUT_KEYS) |->
            RDiv(products[active[i]].nutrients[NUT_KEYS[k]], R(100))])])

\* faulty variant of BuildB: built from the magnitudes of the residual
BuildBMagnitude(pm, resid_vec, alpha) ==
    List([i \in 1..Len(pm) |->
        RSum([k \in 1..Len(NUT_KEYS) |->
            RMul(RMul(R(WEIGHTS[NUT_KEYS[k]]),
                      RMul(RAbs(resid_vec[NUT_KEYS[k]]), alpha)),
                 pm[i][k])])])

\* b[i] = sum_k w * (resid_vec[key] * alpha) * pmat[i][k]
BuildB(pm, resid_vec, alpha) ==
    List([i \in 1..Len(pm) |->
        RSum([k \in 1..Len(NUT_KEYS) |->
            RMul(RMul(R(WEIGHTS[NUT_KEYS[k]]),
                      RMul(resid_vec[NUT_KEYS[k]], alpha)),
                 pm[i][k])])])

\* G[i][j] = sum_k w * pmat[i][k] * pmat[j][k]
BuildG(pm) ==
    List([i \in 1..Len(pm) |->
        List([j \in 1..Len(pm) |->
            RSum([k \in 1..Len(NUT_KEYS) |->
                RMul(RMul(R(WEIGHTS[NUT_KEYS[k]]), pm[i][k]), pm[j][k])])])])

\* pivot = max(range(col, m2), key=lambda r: abs(aug[r][col])) :
\* the first row, from col on, of largest magnitude in column col
PivotRow(aug, col, m2) ==
    CHOOSE r \in col..m2 :
        /\ \A q \in col..m2 : RLe(RAbs(aug[q][col]), RAbs(aug[r][col]))
        /\ \A q \in col..(r - 1) : RLt(RAbs(aug[q][col]), RAbs(aug[r][col]))

\* one pass of "for col in range(m2)": skip a column whose pivot is below
\* the tolerance, else swap, normalise the pivot row from col on and
\* subtract it from every other row from col on
ElimColumn(aug, col, m2) ==
    LET pivot == PivotRow(aug, col, m2)
    IN  IF BelowTol(RAbs(aug[pivot][col]))
        THEN aug
        ELSE LET swapped == [aug EXCEPT ![col] = aug[pivot], ![pivot] = aug[col]]
                 piv     == swapped[col][col]
                 prow    == List([j \in 1..(m2 + 1) |->
                                IF j >= col THEN RDiv(swapped[col][j], piv)
                                            ELSE swapped[col][j]])
             IN  List([i2 \in 1..m2 |->
                    IF i2 = col
                    THEN prow
                    ELSE LET factor == swapped[i2][col]
                         IN  List([j \in 1..(m2 + 1) |->
                                IF j >= col
                                THEN RSub(swapped[i2][j], RMul(factor, prow[j]))
                                ELSE swapped[i2][j]])])

RECURSIVE GaussJordan(_, _, _)
GaussJordan(aug, col, m2) ==
    IF col > m2 THEN aug
    ELSE GaussJordan(ElimColumn(aug, col, m2), col + 1, m2)

\* for i2 in range(m2 - 1, -1, -1): sol_vec[i2] = aug[i2][m2] - sum_{j>i2} ...
RECURSIVE BackSubstitute(_, _, _, _)
BackSubstitute(aug, m2, i2, sol_vec) ==
    IF i2 = 0 THEN sol_vec
    ELSE BackSubstitute(aug, m2, i2 - 1,
            List([sol_vec EXCEPT ![i2] =
                RSub(aug[i2][m2 + 1],
                     RSum([j \in 1..(m2 - i2) |->
                              RMul(aug[i2][i2 + j], sol_vec[i2 + j])]))]))

\* aug = [activeG[i][:] + [activeB[i]] ...]; eliminate; back-substitute
SolveLinear(activeG, activeB) ==
    LET m2  == Len(activeB)
        aug == List([i \in 1..m2 |-> Append(activeG[i], activeB[i])])
    IN  BackSubstitute(GaussJordan(aug, 1, m2), m2, m2,
                       List([i \in 1..m2 |-> R(0)]))

\* neg = [i for i, v in enumerate(sol_vec) if v < 0]
NegIdx(sol_vec) == {i \in 1..Len(sol_vec) : RLt(sol_vec[i], R(0))}

\* faulty variant of KeepSeq: removes nothing
KeepEvery(sol_vec) == [i \in 1..Len(sol_vec) |-> i]

\* keep = [i for i in range(m2) if i not in neg], as an increasing sequence
KeepSeq(sol_vec) ==
    SelectSeq([i \in 1..Len(sol_vec) |-> i], LAMBDA i : i \notin NegIdx(sol_vec))

\* One round of the "while True" active-set loop, for m2 > 0: either the
\* solution is accepted (done) or the negative components are removed.
SolveRound(active_idxs, activeG, activeB) ==
    LET sol_vec == SolveLinear(activeG, activeB)
        keep    == KeepSeq(sol_vec)
    IN  IF NegIdx(sol_vec) = {}
        THEN [done |-> TRUE, sol |-> sol_vec, active_idxs |-> active_idxs,
              activeG |-> activeG, activeB |-> activeB]
        ELSE [done |-> FALSE, sol |-> <<>>,
              active_idxs |-> List([i \in 1..Len(keep) |-> active_idxs[keep[i]]]),
              activeG |-> List([i \in 1..Len(keep) |->
                              List([j \in 1..Len(keep) |->
                                      activeG[keep[i]][keep[j]]])]),
              activeB |-> List([i \in 1..Len(keep) |-> activeB[keep[i]]])]

\* faulty variant of RoundIncrement: no second floor (line 166)
RoundIncrementNoRefloor(grams, remaining, step) ==
    LET clipped == IF RLt(remaining, grams) THEN remaining ELSE grams
    IN  IF RLt(R(0), step)
        THEN RMul(R(RFloor(RAdd(RDiv(clipped, step), <<1, 2>>))), step)
        ELSE clipped

\* lines 160-169: clip to the remaining capacity, round half up to a step
\* multiple, floor again when the rounding went over the capacity
RoundIncrement(grams, remaining, step) ==
    LET clipped == IF RLt(remaining, grams) THEN remaining ELSE grams
    IN  IF RLt(R(0), step)
        THEN LET rounded  == RMul(R(js_round(RDiv(clipped, step))), step)
                 refloor  == IF RLt(remaining, rounded)
                             THEN RMul(R(RFloor(RDiv(remaining, step))), step)
                             ELSE rounded
             IN  IF RLt(refloor, R(0)) THEN R(0) ELSE refloor
        ELSE clipped

\* the body of "for i, idx in enumerate(active_idxs)" for one i: the grams
\* added to product idx (0 when the body hits a continue)
Increment(products, var_add, idx, grams) ==
    LET remaining == RSub(max_vals(products, idx), var_add[idx])
    IN  IF RLe(grams, R(0)) THEN R(0)
        ELSE IF RLe(remaining, R(0)) THEN R(0)
        ELSE LET g == RoundIncrement(grams, remaining, step_vals(products, idx))
             IN  IF RLe(g, R(0)) THEN R(0) ELSE g

\* resid_vec[key] -= (p[key] / 100.0) * grams, for every key
SubtractContribution(resid_vec, nutrients, grams) ==
    List([key \in NutKeySet |->
        RSub(resid_vec[key], RMul(RDiv(nutrients[key], R(100)), grams))])

\* the whole "for i, idx in enumerate(active_idxs)" loop, from position i
RECURSIVE ApplyLoop(_, _, _, _, _)
ApplyLoop(products, active_idxs, sol, i, acc) ==
    IF i > Len(active_idxs) THEN acc
    ELSE LET idx == active_idxs[i]
             g   == Increment(products, acc.var_add, idx, sol[i])
         IN  IF g = R(0)
             THEN ApplyLoop(products, active_idxs, sol, i + 1, acc)
             ELSE ApplyLoop(products, active_idxs, sol, i + 1,
                    [var_add      |-> List([acc.var_add EXCEPT
                                                ![idx] = RAdd(@, g)]),
                     resid_vec    |-> SubtractContribution(acc.resid_vec,
                                          products[idx].nutrients, g),
                     any_positive |-> TRUE])

ApplyIncrements(products, active_idxs, sol, var_add, resid_vec) ==
    ApplyLoop(products, active_idxs, sol, 1,
              [var_add |-> var_add, resid_vec |-> resid_vec,
               any_positive |-> FALSE])

\* the "while True" loop run to its end: the accepted solution and the
\* products it is for, or the empty solution when every product was removed
RECURSIVE ActiveSetSolve(_, _, _)
ActiveSetSolve(active_idxs, activeG, activeB) ==
    IF Len(active_idxs) = 0
    THEN [sol |-> <<>>, active_idxs |-> <<>>]
    ELSE LET r == SolveRound(active_idxs, activeG, activeB)
         IN  IF r.done
             THEN [sol |-> r.sol, active_idxs |-> r.active_idxs]
             ELSE ActiveSetSolve(r.active_idxs, r.activeG, r.activeB)

\* The outer "while active and iteration < max_iter" loop run to its end,
\* one operator per stage of an iteration: the loop test and the filter,
\* the solve, the "if not sol" test, the increments and the stagnation test.
RECURSIVE RefineLoop(_, _, _, _, _, _)
RECURSIVE RefineFiltered(_, _, _, _, _, _)
RECURSIVE RefineSolved(_, _, _, _, _, _, _)
RECURSIVE RefineApplied(_, _, _, _, _, _)

RefineLoop(products, alpha, active, var_add, resid_vec, iteration) ==
    IF Len(active) = 0 \/ iteration >= max_iter THEN var_add
    ELSE RefineFiltered(products, alpha,
                        FilterActive(products, var_add, active),
                        var_add, resid_vec, iteration)

RefineFiltered(products, alpha, active, var_add, resid_vec, iteration) ==
    IF Len(active) = 0 THEN var_add
    ELSE RefineSolved(products, alpha, active,
                      ActiveSetSolve(active,
                                     BuildG(pmat(products, active)),
                                     BuildB(pmat(products, active),
                                            resid_vec, alpha)),
                      var_add, resid_vec, iteration)

RefineSolved(products, alpha, active, s, var_add, resid_vec, iteration) ==
    IF s.sol = <<>> THEN var_add
    ELSE RefineApplied(products, alpha, active,
                       ApplyIncrements(products, s.active_idxs, s.sol,
                                       var_add, resid_vec),
                       var_add, iteration)

RefineApplied(products, alpha, active, a, var_add, iteration) ==
    IF ~a.any_positive THEN var_add
    ELSE RefineLoop(products, alpha, active, a.var_add, a.resid_vec,
                    iteration + 1)

run_iterative_optimization(products, var_idxs, resid, alpha) ==
    RefineLoop(products, alpha, var_idxs,
               List([idx \in Range(var_idxs) |-> R(0)]), resid, 0)

\* faulty variant of Totals: nutrients taken per gram, not per 100 grams
TotalsPerGram(products, var_idxs, var_map) ==
    List([key \in NutKeySet |->
        RSum([i \in 1..Len(var_idxs) |->
            RMul(products[var_idxs[i]].nutrients[key], var_map[var_idxs[i]])])])

\* totals[key] += p[key] * (grams / 100.0) over the products with grams > 0
Totals(products, var_idxs, var_map) ==
    List([key \in NutKeySet |->
        RSum([i \in 1..Len(var_idxs) |->
            IF RLt(R(0), var_map[var_idxs[i]])
            THEN RMul(products[var_idxs[i]].nutrients[key],
                      RDiv(var_map[var_idxs[i]], R(100)))
            ELSE R(0)])])

\* err_sum / n_keys, the square of the rmse that evaluate_diet returns
\* (rmse = math.sqrt(err_sum / n_keys); the square root is increasing, so
\* rmse values compare as their squares do, and rmse = 0 iff the square is)
RmseSquared(targets, totals) ==
    RDiv(RSum([k \in 1..Len(NUT_KEYS) |->
                 LET diff == RSub(targets[NUT_KEYS[k]], totals[NUT_KEYS[k]])
                 IN  RMul(R(WEIGHTS[NUT_KEYS[k]]), RMul(diff, diff))]),
         R(Len(NUT_KEYS)))

\* evaluate_diet after the call of run_iterative_optimization
Score(products, var_idxs, targets, var_map) ==
    [var_map |-> var_map,
     totals  |-> Totals(products, var_idxs, var_map),
     rmse_sq |-> RmseSquared(targets, Totals(products, var_idxs, var_map))]

evaluate_diet(products, var_idxs, targets, alpha) ==
    Score(products, var_idxs, targets,
          run_iterative_optimization(products, var_idxs, targets, alpha))

calculate_calories(t) ==
    RAdd(RAdd(RMul(R(4), t["protein"]),
              RMul(R(9), RAdd(t["saturatedFat"], t["unsaturatedFat"]))),
         RAdd(RMul(R(4), RAdd(t["simpleCarbs"], t["complexCarbs"])),
              RMul(<<3, 2>>, RAdd(t["solubleFiber"], t["insolubleFiber"]))))

----------------------------------------------------------------------------
(* Inputs.                                                                 *)

\* the largest "Макс. порций" of a product
MaxPortions == 12

\* the largest target of one nutrient, in grams
MaxTarget == 60

\* the number of products of the catalogue
MaxProducts == 2

ZeroVector == [key \in NutKeySet |-> R(0)]

\* per-100g nutrient rows: a protein isolate, a pure soluble fibre, a food
\* half protein and half saturated fat, and a pure saturated fat; ККал
\* follows the calorie formula
ProteinRow ==
    [ZeroVector EXCEPT !["protein"] = R(100), !["calories"] = R(400)]

FibreRow ==
    [ZeroVector EXCEPT !["solubleFiber"] = R(100), !["calories"] = R(150)]

MixedRow ==
    [ZeroVector EXCEPT !["protein"] = R(50), !["saturatedFat"] = R(50),
                       !["calories"] = R(650)]

FatRow ==
    [ZeroVector EXCEPT !["saturatedFat"] = R(100), !["calories"] = R(900)]

\* load_products: max_weight = float(row['Макс. порций']) * step
load_product(nutrients, step, portions) ==
    [nutrients |-> nutrients, step |-> step, max_weight |-> RMul(portions, step)]

\* the rows of "Nutrients DB.csv" a catalogue is made of
ProductChoices ==
    << load_product(ProteinRow, R(1), <<3, 2>>),
       load_product(ProteinRow, R(1), R(MaxPortions)),
       load_product(FibreRow, R(2), R(MaxPortions)),
       load_product(MixedRow, R(2), R(MaxPortions)),
       load_product(FatRow, R(1), R(MaxPortions)),
       load_product(FatRow, R(0), R(2)) >>

\* the catalogues of at most MaxProducts rows, a row possibly twice; the
\* rows come in the order of ProductChoices, the order in which a trial
\* takes them being that of var_idxs
Catalogues ==
    UNION { { [i \in 1..n |-> ProductChoices[c[i]]] :
                c \in { c \in [1..n -> 1..Len(ProductChoices)] :
                          \A i \in 1..(n - 1) : c[i] <= c[i + 1] } } :
            n \in 1..MaxProducts }

\* the orders random.shuffle can give to the indices 1..n
Shuffles(n) ==
    { s \in [1..n -> 1..n] : \A i, j \in 1..n : i # j => s[i] # s[j] }

\* main: the targets typed in, and targets['calories'] computed from them
TargetVectors ==
    { LET t == [ZeroVector EXCEPT !["protein"] = tp, !["saturatedFat"] = tf]
      IN  [t EXCEPT !["calories"] = calculate_calories(t)] :
        tp \in {R(0), <<1, 2>>, R(2), R(MaxTarget)}, tf \in {R(0), R(2)} }

\* alpha / 100.0 for the pacing percentages 1, 50 and 100
AlphaChoices == {<<1, 100>>, <<1, 2>>, R(1)}

----------------------------------------------------------------------------
(* One trial: evaluate_diet and run_iterative_optimization, step by step.  *)

VARIABLES
    products,     \* the catalogue, as load_products returns it
    var_idxs,     \* the (shuffled) product indices of the trial
    targets,      \* the target vector
    alpha,        \* the pacing factor of the trial
    resid_vec,    \* target minus what the assigned weights supply
    var_add,      \* assigned grams per product index
    active,       \* the indices still eligible
    iteration,    \* completed refinement iterations
    active_idxs,  \* the active set of the solver
    activeG,      \* its Gram matrix
    activeB,      \* its right-hand side
    sol,          \* the accepted solution, <<>> when there is none
    totals,       \* evaluate_diet: nutrients supplied
    rmse_sq,      \* evaluate_diet: err_sum / n_keys
    pc,           \* where the trial is
    \* main of optimize_nutrients.py
    start_alpha,    \* the first pacing percentage
    runs_per_alpha, \* the number of runs typed in
    alpha_pct,      \* the loop variable alpha
    run,            \* the loop variable run
    best,           \* <<>> for None, else <<the best trial>>
    trials,         \* every trial run so far: its alpha, run and error
    mpc,            \* where main is
    trial_result,   \* what evaluate_diet returns, per order and alpha
    \* app.py
    db,             \* the rows of the CSV file
    request,        \* the request being answered
    response        \* the status code answered

trial_vars == << products, var_idxs, targets, alpha, resid_vec, var_add,
                 active, iteration, active_idxs, activeG, activeB, sol,
                 totals, rmse_sq, pc >>

main_vars == << start_alpha, runs_per_alpha, alpha_pct, run, best, trials,
                mpc, trial_result >>

app_vars == << db, request, response >>

vars == << trial_vars, main_vars, app_vars >>

\* main is not running
MainIdle ==
    /\ start_alpha = 0
    /\ runs_per_alpha = 0
    /\ alpha_pct = 0
    /\ run = 0
    /\ best = <<>>
    /\ trials = <<>>
    /\ mpc = "idle"
    /\ trial_result = <<>>

\* the web service is not running
AppIdle ==
    /\ db = <<>>
    /\ request = <<>>
    /\ response = 0

inputs == << products, var_idxs, targets, alpha >>

\* evaluate_diet called: resid = copy of the targets, var_add all 0.0,
\* active = var_idxs[:], iteration = 0
TrialStart(p, order, t, a) ==
    /\ products = p
    /\ var_idxs = order
    /\ targets = t
    /\ alpha = a
    /\ resid_vec = t
    /\ var_add = [idx \in Range(order) |-> R(0)]
    /\ active = order
    /\ iteration = 0
    /\ active_idxs = <<>>
    /\ activeG = <<>>
    /\ activeB = <<>>
    /\ sol = <<>>
    /\ totals = ZeroVector
    /\ rmse_sq = R(0)
    /\ pc = "filter"

Init ==
    /\ \E p \in Catalogues, t \in TargetVectors, a \in AlphaChoices :
          \E order \in Shuffles(Len(p)) : TrialStart(p, order, t, a)
    /\ MainIdle
    /\ AppIdle

\* while active and iteration < max_iter: active = [...]; if not active: break
Filter ==
    /\ pc = "filter"
    /\ IF Len(active) > 0 /\ iteration < max_iter
       THEN /\ active' = FilterActive(products, var_add, active)
            /\ pc' = IF Len(active') = 0 THEN "eval" ELSE "build"
       ELSE /\ active' = active
            /\ pc' = "eval"
    /\ UNCHANGED << main_vars, app_vars, inputs, resid_vec, var_add,
                    iteration, active_idxs, activeG, activeB, sol, totals,
                    rmse_sq >>

\* pmat, G, b; active_idxs = active[:]; activeG, activeB copies; sol = []
Build ==
    /\ pc = "build"
    /\ active_idxs' = active
    /\ activeG' = BuildG(pmat(products, active))
    /\ activeB' = BuildB(pmat(products, active), resid_vec, alpha)
    /\ sol' = <<>>
    /\ pc' = "solve"
    /\ UNCHANGED << main_vars, app_vars, inputs, resid_vec, var_add, active,
                    iteration, totals, rmse_sq >>

\* one round of the "while True" loop
Solve ==
    /\ pc = "solve"
    /\ IF Len(active_idxs) = 0
       THEN /\ pc' = "apply"
            /\ UNCHANGED << active_idxs, activeG, activeB, sol >>
       ELSE LET r == SolveRound(active_idxs, activeG, activeB)
            IN  /\ sol' = r.sol
                /\ active_idxs' = r.active_idxs
                /\ activeG' = r.activeG
                /\ activeB' = r.activeB
                /\ pc' = IF r.done THEN "apply" ELSE "solve"
    /\ UNCHANGED << main_vars, app_vars, inputs, resid_vec, var_add, active,
                    iteration, totals, rmse_sq >>

\* if not sol: break; the increments; if not any_positive: break; iteration += 1
Apply ==
    /\ pc = "apply"
    /\ IF sol = <<>>
       THEN /\ pc' = "eval"
            /\ UNCHANGED << var_add, resid_vec, iteration >>
       ELSE LET a == ApplyIncrements(products, active_idxs, sol, var_add,
                                     resid_vec)
            IN  /\ var_add' = a.var_add
                /\ resid_vec' = a.resid_vec
                /\ iteration' = IF a.any_positive THEN iteration + 1
                                                  ELSE iteration
                /\ pc' = IF a.any_positive THEN "filter" ELSE "eval"
    /\ UNCHANGED << main_vars, app_vars, inputs, active, active_idxs,
                    activeG, activeB, sol, totals, rmse_sq >>

\* return var_add; evaluate_diet: the totals and the error
Evaluate ==
    /\ pc = "eval"
    /\ totals' = Totals(products, var_idxs, var_add)
    /\ rmse_sq' = RmseSquared(targets, Totals(products, var_idxs, var_add))
    /\ pc' = "done"
    /\ UNCHANGED << main_vars, app_vars, inputs, resid_vec, var_add, active,
                    iteration, active_idxs, activeG, activeB, sol >>

Next == Filter \/ Build \/ Solve \/ Apply \/ Evaluate

Spec == Init /\ [][Next]_vars

----------------------------------------------------------------------------
(* main: the sweep over the pacing percentages and the runs.               *)

\* the number of pacing percentages below 100 a sweep may start from
MaxSweep == 1

\* the largest number of runs per alpha typed in
MaxRuns == 2

\* the trial is not being stepped through: main calls evaluate_diet whole
TrialIdle(p, t) ==
    /\ products = p
    /\ targets = t
    /\ var_idxs = <<>>
    /\ alpha = R(0)
    /\ resid_vec = t
    /\ var_add = <<>>
    /\ active = <<>>
    /\ iteration = 0
    /\ active_idxs = <<>>
    /\ activeG = <<>>
    /\ activeB = <<>>
    /\ sol = <<>>
    /\ totals = ZeroVector
    /\ rmse_sq = R(0)
    /\ pc = "idle"

\* "Nutrients DB.csv" holds each product once
SearchCatalogues ==
    { p \in Catalogues : \A i, j \in 1..Len(p) : i # j => p[i] # p[j] }

\* evaluate_diet is a pure function: what it returns for each order of the
\* indices and each pacing percentage of a sweep, computed once
TrialResults(p, t) ==
    List([c \in Shuffles(Len(p)) \X ((100 - MaxSweep)..100) |->
            evaluate_diet(p, c[1], t, Rat(c[2], 100))])

\* repeats = max(1, runs_per_alpha)
repeats == IF runs_per_alpha > 1 THEN runs_per_alpha ELSE 1

\* products loaded, targets and parameters typed in; best = None and the
\* two loops at their first values
SearchInit ==
    /\ \E p \in SearchCatalogues, t \in TargetVectors :
          TrialIdle(p, t) /\ trial_result = TrialResults(p, t)
    /\ start_alpha \in (100 - MaxSweep)..100
    /\ runs_per_alpha \in 0..MaxRuns
    /\ alpha_pct = start_alpha
    /\ run = 1
    /\ best = <<>>
    /\ trials = <<>>
    /\ mpc = "sweep"
    /\ AppIdle

\* faulty variant of KeepBest: a trial of equal error replaces the best
KeepBestOrEqual(old, trial) ==
    IF old = <<>> THEN << trial >>
    ELSE IF RLe(trial.rmse_sq, old[1].rmse_sq) THEN << trial >>
    ELSE old

\* if best is None or rmse < best['rmse']: best = {...}
KeepBest(old, trial) ==
    IF old = <<>> THEN << trial >>
    ELSE IF RLt(trial.rmse_sq, old[1].rmse_sq) THEN << trial >>
    ELSE old

\* the body of the two loops for one (alpha, run): shuffle, evaluate,
\* compare with the best, and step the loops
Trial ==
    /\ mpc = "sweep"
    /\ \E shuffled \in Shuffles(Len(products)) :
         LET r == trial_result[<<shuffled, alpha_pct>>]
             t == [alpha |-> alpha_pct, run |-> run,
                   weights |-> [idx \in 1..Len(products) |-> r.var_map[idx]],
                   totals |-> r.totals, rmse_sq |-> r.rmse_sq]
         IN  /\ best' = KeepBest(best, t)
             /\ trials' = Append(trials, [alpha |-> alpha_pct, run |-> run,
                                          rmse_sq |-> r.rmse_sq])
    /\ IF run < repeats
       THEN /\ run' = run + 1
            /\ alpha_pct' = alpha_pct
            /\ mpc' = "sweep"
       ELSE /\ run' = 1
            /\ alpha_pct' = alpha_pct + 1
            /\ mpc' = IF alpha_pct + 1 > 100 THEN "report" ELSE "sweep"
    /\ UNCHANGED << trial_vars, app_vars, start_alpha, runs_per_alpha,
                    trial_result >>

\* if not best: ...; the report of the best trial
Report ==
    /\ mpc = "report"
    /\ mpc' = "done"
    /\ UNCHANGED << trial_vars, app_vars, start_alpha, runs_per_alpha,
                    alpha_pct, run, best, trials, trial_result >>

SearchNext == Trial \/ Report

SearchSpec == SearchInit /\ [][SearchNext]_vars

----------------------------------------------------------------------------
(* app.py: the product catalogue service.  A text (a JSON string, a CSV    *)
(* cell) is a sequence of one-character strings.  The field names are the  *)
(* transliterated ones of FIELDNAMES:                                      *)
(*   Produkt = Продукт, Belki = Белки, Nasyshchennye = Насыщенные,         *)
(*   NEnasyshchennye = НЕнасыщенные, Prostye = Простые,                    *)
(*   Slozhnye perevarivaemye = Сложные перевариваемые,                     *)
(*   Rastvorimaya = Растворимая, Nerastvorimaya = Нерастворимая,           *)
(*   KKal = ККал, Maks. portsiy = Макс. порций, Shag = Шаг.                *)

FIELDNAMES ==
    << "Produkt", "Belki", "Nasyshchennye", "NEnasyshchennye", "Prostye",
       "Slozhnye perevarivaemye", "Rastvorimaya", "Nerastvorimaya",
       "KKal", "Maks. portsiy", "Shag" >>

\* INPUT_FIELDS = [f for f in FIELDNAMES if f != 'ККал']
INPUT_FIELDS == SelectSeq(FIELDNAMES, LAMBDA f : f # "KKal")

\* the value of a decimal digit character, -1 for any other character
Digit(c) ==
    CASE c = "0" -> 0 [] c = "1" -> 1 [] c = "2" -> 2 [] c = "3" -> 3
      [] c = "4" -> 4 [] c = "5" -> 5 [] c = "6" -> 6 [] c = "7" -> 7
      [] c = "8" -> 8 [] c = "9" -> 9 [] OTHER -> -1

IsDigits(text) == \A i \in 1..Len(text) : Digit(text[i]) >= 0

RECURSIVE DigitsValue(_)
DigitsValue(text) ==
    IF text = << >> THEN 0
    ELSE 10 * DigitsValue(SubSeq(text, 1, Len(text) - 1))
         + Digit(text[Len(text)])

RECURSIVE Pow10(_)
Pow10(k) == IF k = 0 THEN 1 ELSE 10 * Pow10(k - 1)

\* float(text) for a text of digits with at most one "." and an optional
\* sign; ok is FALSE where float raises ValueError.  (Exponents, "inf",
\* "nan", "_" and blanks are not part of the texts modelled.)  The decimal
\* fractions used are dyadic, so the float is the rational itself.
ParseFloat(text) ==
    LET signed   == text # << >> /\ text[1] \in {"-", "+"}
        body     == IF signed THEN Tail(text) ELSE text
        dots     == {i \in 1..Len(body) : body[i] = "."}
        dot      == IF dots = {} THEN Len(body) + 1
                    ELSE CHOOSE i \in dots : \A j \in dots : i <= j
        whole    == SubSeq(body, 1, dot - 1)
        fraction == SubSeq(body, dot + 1, Len(body))
        ok       == /\ IsDigits(whole)
                    /\ IsDigits(fraction)
                    /\ Len(whole) + Len(fraction) > 0
        value    == RAdd(R(DigitsValue(whole)),
                         Rat(DigitsValue(fraction), Pow10(Len(fraction))))
    IN  IF ~ok THEN [ok |-> FALSE, value |-> R(0)]
        ELSE [ok |-> TRUE,
              value |-> IF signed /\ text[1] = "-" THEN RNeg(value)
                                                   ELSE value]

\* def g(name): float(data.get(name, 0) or 0), 0.0 on ValueError
g(data, name) ==
    IF name \notin DOMAIN data THEN R(0)
    ELSE IF data[name] = << >> THEN R(0)
    ELSE IF ParseFloat(data[name]).ok THEN ParseFloat(data[name]).value
    ELSE R(0)

DigitChar(k) ==
    << "0", "1", "2", "3", "4", "5", "6", "7", "8", "9" >>[k + 1]

RECURSIVE IntText(_)
IntText(n) ==
    IF n < 10 THEN << DigitChar(n) >>
    ELSE Append(IntText(n \div 10), DigitChar(n % 10))

\* f"{kcal:.2f}": the nearest hundredth, a tie going to the even one
Format2(x) ==
    LET n      == Abs(x[1]) * 100
        low    == n \div x[2]
        twice  == 2 * (n % x[2])
        cents  == IF twice > x[2] THEN low + 1
                  ELSE IF twice = x[2] THEN low + (low % 2)
                  ELSE low
        digits == IntText(cents \div 100)
                  \o << ".", DigitChar((cents % 100) \div 10),
                        DigitChar(cents % 10) >>
    IN  IF x[1] < 0 THEN << "-" >> \o digits ELSE digits

calculate_kcal(data) ==
    Format2(RAdd(RAdd(RMul(g(data, "Belki"), R(4)),
                      RMul(RAdd(g(data, "Nasyshchennye"),
                                g(data, "NEnasyshchennye")), R(9))),
                 RAdd(RMul(RAdd(g(data, "Prostye"),
                                g(data, "Slozhnye perevarivaemye")), R(4)),
                      RMul(RAdd(g(data, "Rastvorimaya"),
                                g(data, "Nerastvorimaya")), << 3, 2 >>))))

\* any(field not in data or data[field] == '' for field in INPUT_FIELDS)
FieldMissing(data) ==
    \E k \in 1..Len(INPUT_FIELDS) :
        \/ INPUT_FIELDS[k] \notin DOMAIN data
        \/ data[INPUT_FIELDS[k]] = << >>

\* faulty variant of SetKcal: keeps the ККал of the request when it has one
SetKcalKeepingRequest(data) ==
    [f \in DOMAIN data \cup {"KKal"} |->
        IF f = "KKal" /\ "KKal" \notin DOMAIN data THEN calculate_kcal(data)
        ELSE data[f]]

\* data['ККал'] = calculate_kcal(data)
SetKcal(data) ==
    [f \in DOMAIN data \cup {"KKal"} |->
        IF f = "KKal" THEN calculate_kcal(data) ELSE data[f]]

\* {field: data[field] for field in FIELDNAMES}
Row(data) == [f \in Range(FIELDNAMES) |-> data[f]]

\* the largest number of rows of the CSV file
MaxRows == 2

\* the product names requests are about
ProductNames == { << "A" >>, << "B" >> }

\* nutrient cells of a request, in the order of FIELDNAMES[2..8]: the
\* values of test_crud_flow, a row with a cell that is no number and a sum
\* ending in 5 thousandths, and a row whose sum is 0.125
NutrientTexts ==
    { << << "1", "0" >>, << "1" >>, << "2" >>, << "3" >>, << "4" >>,
         << "5" >>, << "6" >> >>,
      << << "0", ".", "5" >>, << "0" >>, << "0" >>, << "0" >>, << "x" >>,
         << "0", ".", "2", "5" >>, << "0" >> >>,
      << << "0", ".", "0", "3", "1", "2", "5" >>, << "0" >>, << "0" >>,
         << "0" >>, << "0" >>, << "0" >>, << "0" >> >> }

\* a JSON body with every input field
FullBody(name, cells) ==
    [f \in Range(INPUT_FIELDS) |->
        CASE f = "Produkt"       -> name
          [] f = "Maks. portsiy" -> << "5" >>
          [] f = "Shag"          -> << "1" >>
          [] OTHER -> cells[(CHOOSE k \in 1..Len(FIELDNAMES) :
                                 FIELDNAMES[k] = f) - 1]]

\* the same body carrying a ККал of its own
WithKcal(data) ==
    [f \in DOMAIN data \cup {"KKal"} |->
        IF f = "KKal" THEN << "9", "9", "9" >> ELSE data[f]]

\* the JSON bodies of the requests: complete ones, with and without a ККал,
\* one with an empty cell, one without the field Шаг, and no body at all
Bodies ==
    LET full == { FullBody(n, c) : n \in ProductNames, c \in NutrientTexts }
        some == CHOOSE d \in full : d["Produkt"] = << "B" >>
    IN  full
        \cup { WithKcal(d) : d \in full }
        \cup { [some EXCEPT !["Belki"] = << >>],
               [f \in DOMAIN some \ {"Shag"} |-> some[f]],
               << >> }

\* the rows "Nutrients DB.csv" starts with: names pairwise distinct
StoredRows ==
    { << >>,
      << Row(SetKcal(FullBody(<< "A" >>,
                              CHOOSE c \in NutrientTexts : c[1] = << "1", "0" >>))) >> }

AppInit ==
    /\ TrialIdle(<< >>, ZeroVector)
    /\ MainIdle
    /\ db \in StoredRows
    /\ request = << >>
    /\ response = 0

\* POST /api/products
add_product ==
    /\ Len(db) < MaxRows
    /\ \E data \in Bodies :
         /\ request' = [method |-> "POST", name |-> << >>, data |-> data]
         /\ IF FieldMissing(data)
            THEN response' = 400 /\ db' = db
            ELSE IF \E i \in 1..Len(db) : db[i]["Produkt"] = data["Produkt"]
            THEN response' = 400 /\ db' = db
            ELSE response' = 201 /\ db' = Append(db, Row(SetKcal(data)))
    /\ UNCHANGED << trial_vars, main_vars >>

\* PUT /api/products/<name>: the first row of that name is replaced
edit_product ==
    /\ \E name \in ProductNames, data \in Bodies :
         LET found == {i \in 1..Len(db) : db[i]["Produkt"] = name}
         IN  /\ request' = [method |-> "PUT", name |-> name, data |-> data]
             /\ IF FieldMissing(data)
                THEN response' = 400 /\ db' = db
                ELSE IF found = {}
                THEN response' = 404 /\ db' = db
                ELSE LET idx == CHOOSE i \in found : \A j \in found : i <= j
                     IN  /\ response' = 200
                         /\ db' = [db EXCEPT ![idx] = Row(SetKcal(data))]
    /\ UNCHANGED << trial_vars, main_vars >>

\* DELETE /api/products/<name>
delete_product ==
    /\ \E name \in ProductNames :
         LET new_products ==
                 SelectSeq(db, LAMBDA p : p["Produkt"] # name)
         IN  /\ request' = [method |-> "DELETE", name |-> name,
                            data |-> << >>]
             /\ IF Len(new_products) = Len(db)
                THEN response' = 404 /\ db' = db
                ELSE response' = 200 /\ db' = new_products
    /\ UNCHANGED << trial_vars, main_vars >>

AppNext == add_product \/ edit_product \/ delete_product

AppSpec == AppInit /\ [][AppNext]_vars

----------------------------------------------------------------------------
(* Properties of the catalogue service.                                    *)

\* the request body without its ККал
OtherFields(data) == [f \in DOMAIN data \ {"KKal"} |-> data[f]]

\* the cell of the body as a number, 0 when it is none
Cell(data, f) ==
    IF ParseFloat(data[f]).ok THEN ParseFloat(data[f]).value ELSE R(0)

\* 4*Белки + 9*(Насыщенные + НЕнасыщенные) + 4*(Простые + Сложные
\* перевариваемые) + 1.5*(Растворимая + Нерастворимая), with two decimals
KcalOf(data) ==
    Format2(RAdd(RAdd(RMul(R(4), Cell(data, "Belki")),
                      RMul(R(9), RAdd(Cell(data, "Nasyshchennye"),
                                      Cell(data, "NEnasyshchennye")))),
                 RAdd(RMul(R(4), RAdd(Cell(data, "Prostye"),
                                      Cell(data, "Slozhnye perevarivaemye"))),
                      RMul(<< 3, 2 >>, RAdd(Cell(data, "Rastvorimaya"),
                                            Cell(data, "Nerastvorimaya"))))))

\* C8: a successful POST appends a row, and a successful PUT replaces the
\* first row named in the URL by a row, whose ККал is the calorie formula
\* of the other fields of the request, with two decimals, whatever ККал the
\* request carried, and whose other fields are those of the request.
C8_KcalComputed ==
    [][ /\ (response' = 201 /\ request'.method = "POST") =>
              /\ Len(db') = Len(db) + 1
              /\ db'[Len(db')]["KKal"] = KcalOf(OtherFields(request'.data))
              /\ \A k \in 1..Len(INPUT_FIELDS) :
                    db'[Len(db')][INPUT_FIELDS[k]]
                        = request'.data[INPUT_FIELDS[k]]
        /\ (response' = 200 /\ request'.method = "PUT") =>
              \E i \in 1..Len(db) :
                  /\ db[i]["Produkt"] = request'.name
                  /\ \A j \in 1..(i - 1) : db[j]["Produkt"] # request'.name
                  /\ db'[i]["KKal"] = KcalOf(OtherFields(request'.data))
                  /\ \A k \in 1..Len(INPUT_FIELDS) :
                        db'[i][INPUT_FIELDS[k]]
                            = request'.data[INPUT_FIELDS[k]]
                  /\ \A j \in 1..Len(db) : j # i => db'[j] = db[j]
      ]_vars

\* C8, its case: a PUT carrying ККал = 999 and a cell that is no number was
\* answered 200, and the row stored has ККал 2.38
C8_Witness ==
    /\ response = 200
    /\ request.method = "PUT"
    /\ "KKal" \in DOMAIN request.data
    /\ request.data["KKal"] = << "9", "9", "9" >>
    /\ request.data["Slozhnye perevarivaemye"] = << "x" >>
    /\ \E i \in 1..Len(db) :
          /\ db[i]["Produkt"] = request.data["Produkt"]
          /\ db[i]["KKal"] = << "2", ".", "3", "8" >>

\* C9: the names of the stored products are pairwise distinct.
C9_NamesDistinct ==
    \A i, j \in 1..Len(db) : i # j => db[i]["Produkt"] # db[j]["Produkt"]

----------------------------------------------------------------------------
(* Properties of one trial.                                                *)

\* x is a whole multiple of step
IsMultiple(x, step) == RDiv(x, step)[2] = 1

WithinCapacity ==
    \A idx \in DOMAIN var_add :
        /\ RLe(R(0), var_add[idx])
        /\ RLe(var_add[idx], max_vals(products, idx))
        /\ \/ var_add[idx] = R(0)
           \/ var_add[idx] = max_vals(products, idx)
           \/ IsMultiple(var_add[idx], step_vals(products, idx))

NeverDecreases ==
    \A idx \in DOMAIN var_add : RLe(var_add[idx], var_add'[idx])

\* C1: at every point of a trial each assigned weight is at least 0 and at
\* most the product's max_weight, and is a multiple of the product's step
\* unless it is the capacity itself; and no step of the trial lowers it.
C1_WeightBounds == [] WithinCapacity /\ [][NeverDecreases]_vars

\* C1, its case: the trial is over, a product whose capacity is one step
\* and a half was given one step, and another product more than one step
C1_Witness ==
    /\ pc = "done"
    /\ \E idx \in DOMAIN var_add :
          /\ max_vals(products, idx) = << 3, 2 >>
          /\ var_add[idx] = R(1)
    /\ \E idx \in DOMAIN var_add :
          RLt(step_vals(products, idx), var_add[idx])

\* floor(min(g, rem)/s + 0.5) * s when that is at most rem, else
\* floor(rem/s) * s; nothing when the result is not positive
RoundedIncrement(grams, rem, s) ==
    LET m == IF RLt(grams, rem) THEN grams ELSE rem
        r == RMul(R((2 * RDiv(m, s)[1] + RDiv(m, s)[2])
                        \div (2 * RDiv(m, s)[2])), s)
        f == RMul(R(RDiv(rem, s)[1] \div RDiv(rem, s)[2]), s)
        v == IF RLe(r, rem) THEN r ELSE f
    IN  IF RLe(v, R(0)) THEN R(0) ELSE v

\* C5: when the increments of an iteration are applied, every product the
\* solver gave a positive amount g, with remaining capacity rem > 0 and
\* step s > 0, gains exactly the rounded increment of g, rem and s.
C5_Rounding ==
    [][ (pc = "apply" /\ sol # << >>) =>
          \A i \in 1..Len(active_idxs) :
              LET idx == active_idxs[i]
                  rem == RSub(max_vals(products, idx), var_add[idx])
              IN  (/\ RLt(R(0), sol[i])
                   /\ RLt(R(0), rem)
                   /\ RLt(R(0), step_vals(products, idx)))
                  => RSub(var_add'[idx], var_add[idx])
                         = RoundedIncrement(sol[i], rem,
                                            step_vals(products, idx))
      ]_vars

\* C5, its case: after the first iteration a product with step 1 and room
\* for one step and a half, for which the solver asked two steps, has one
C5_Witness ==
    /\ pc = "filter"
    /\ iteration = 1
    /\ Len(active_idxs) = 1
    /\ sol = << R(2) >>
    /\ step_vals(products, active_idxs[1]) = R(1)
    /\ max_vals(products, active_idxs[1]) = << 3, 2 >>
    /\ var_add[active_idxs[1]] = R(1)

\* the sum of the squared components of the residual
SumSquared(resid) ==
    RSum([k \in 1..Len(NUT_KEYS) |->
             RMul(resid[NUT_KEYS[k]], resid[NUT_KEYS[k]])])

\* C2: an iteration that gives some product a positive increment leaves a
\* sum of squared residual components that is at most the one before it.
C2_ResidualShrinks ==
    [][ (pc = "apply" /\ var_add' # var_add) =>
            RLe(SumSquared(resid_vec'), SumSquared(resid_vec)) ]_vars

\* every component of the residual is at most 0
Covered == \A key \in NutKeySet : RLe(resid_vec[key], R(0))

\* how far the trial is from its end within one iteration
StageRank ==
    CASE pc = "filter" -> Len(products) + 5
      [] pc = "build"  -> Len(products) + 4
      [] pc = "solve"  -> Len(active_idxs) + 3
      [] pc = "apply"  -> 2
      [] pc = "eval"   -> 1
      [] OTHER         -> 0

\* C3: once every residual component is at most 0, at entry or after the
\* increments of an iteration, no assigned weight changes, the iteration
\* count does not advance and no step goes back to the head of the loop:
\* every step is one nearer to the return; a trial for the all-zero
\* target ends with every weight 0, no iteration counted and an error of 0.
C3_CoveredStops ==
    /\ [][ Covered => /\ var_add' = var_add
                      /\ iteration' = iteration
                      /\ StageRank' < StageRank ]_vars
    /\ [] ((pc = "done" /\ targets = ZeroVector) =>
              /\ \A idx \in DOMAIN var_add : var_add[idx] = R(0)
              /\ iteration = 0
              /\ rmse_sq = R(0))

\* C3, its case: the trial is over after an iteration that overshot: a
\* weight is positive and some residual component is below 0, none above
C3_Witness ==
    /\ pc = "done"
    /\ iteration >= 1
    /\ Covered
    /\ \E key \in NutKeySet : RLt(resid_vec[key], R(0))
    /\ \E idx \in DOMAIN var_add : RLt(R(0), var_add[idx])

\* the catalogue is one product with step 1 whose nutrients per 100 g are
\* the targets divided by a positive number, so that the targets are met
\* by grams = 100 * scale of it, and its capacity is at least that
ScenarioA(grams) ==
    /\ Len(products) = 1
    /\ step_vals(products, 1) = R(1)
    /\ RLt(R(0), grams)
    /\ RLe(grams, max_vals(products, 1))
    /\ \A key \in NutKeySet :
          targets[key] = RMul(RDiv(products[1].nutrients[key], R(100)), grams)

\* the grams of product 1 that supply the calorie target
CalorieGrams ==
    RDiv(RMul(targets["calories"], R(100)), products[1].nutrients["calories"])

ScenarioAResult ==
    /\ iteration = 1
    /\ var_add[1] = CalorieGrams
    /\ rmse_sq = R(0)

\* C4 as the specification states it: in scenario A the trial applies
\* increments in exactly one iteration and returns the weight 100 * scale
\* with an error of 0.
C4_ScenarioA_AsStated ==
    (/\ pc = "done"
     /\ Len(products) = 1
     /\ ScenarioA(CalorieGrams))
    => ScenarioAResult

\* C4: in scenario A, with the pacing factor 1 and 100 * scale a whole
\* number of grams, the trial applies increments in exactly one iteration
\* and returns the weight 100 * scale with an error of 0.
C4_ScenarioA ==
    (/\ pc = "done"
     /\ Len(products) = 1
     /\ ScenarioA(CalorieGrams)
     /\ alpha = R(1)
     /\ CalorieGrams[2] = 1)
    => ScenarioAResult

\* C4, its case: a finished trial of scenario A with the pacing factor 1
\* that returned the 2 g of a protein isolate that the targets ask for
C4_Witness ==
    /\ pc = "done"
    /\ Len(products) = 1
    /\ ScenarioA(R(2))
    /\ products[1].nutrients = ProteinRow
    /\ alpha = R(1)
    /\ var_add[1] = R(2)
    /\ iteration = 1
    /\ rmse_sq = R(0)

\* step > 0 and max_weight - assigned >= step / 2
HasRoom(idx) ==
    /\ RLt(R(0), step_vals(products, idx))
    /\ RLe(RDiv(step_vals(products, idx), R(2)),
           RSub(max_vals(products, idx), var_add[idx]))

\* C6: a product that is not in the eligible set is in no later one and
\* its weight does not change; the filter at the head of an iteration
\* keeps exactly the eligible products that have room; and the solver,
\* which works on active_idxs, removes nothing from the eligible set, so a
\* product it dropped is offered to the filter of the next iteration.
C6_ExclusionIsPermanent ==
    [][ /\ \A idx \in Range(var_idxs) :
              idx \notin Range(active) =>
                  /\ idx \notin Range(active')
                  /\ var_add'[idx] = var_add[idx]
        /\ (pc = "filter" /\ active # << >> /\ iteration < max_iter) =>
              \A idx \in Range(active) :
                  idx \in Range(active') <=> HasRoom(idx)
        /\ pc \in {"build", "solve", "apply"} =>
              /\ active' = active
              /\ Range(active_idxs') \subseteq Range(active)
      ]_vars

\* C6, its case: the second iteration has been filtered; one product, full
\* after the first iteration, is out of the eligible set; another, which
\* the solver dropped in the first iteration, is in it
C6_Witness ==
    /\ pc = "build"
    /\ iteration = 1
    /\ \E idx \in Range(var_idxs) :
          /\ idx \notin Range(active)
          /\ RLt(R(0), var_add[idx])
    /\ \E idx \in Range(active) : idx \notin Range(active_idxs)

\* how far the trial is from its end: the iterations left, then the stage
TrialRank ==
    IF pc \in {"eval", "done"} THEN StageRank
    ELSE (max_iter - iteration) * (Len(products) + 6) + StageRank

\* C10: the iteration count never passes max_iter; a round of the
\* active-set loop either accepts its solution or leaves fewer products in
\* the active set; the loop ends with a solution for the whole active set
\* and no negative component, or with the active set empty and no
\* solution, and then the trial goes to its return with the weights as
\* they were; and every trial returns: each step lowers a rank that is
\* never below 0.
C10_Terminates ==
    /\ [] (iteration <= max_iter)
    /\ [] ((pc = "solve" /\ active_idxs # << >>) =>
              \/ SolveRound(active_idxs, activeG, activeB).done
              \/ Len(SolveRound(active_idxs, activeG, activeB).active_idxs)
                     < Len(active_idxs))
    /\ [] (pc = "apply" =>
              \/ /\ sol # << >>
                 /\ Len(sol) = Len(active_idxs)
                 /\ \A i \in 1..Len(sol) : RLe(R(0), sol[i])
              \/ active_idxs = << >> /\ sol = << >>)
    /\ [][ (pc = "apply" /\ active_idxs = << >>) =>
               (pc' = "eval" /\ var_add' = var_add) ]_vars
    /\ [][ pc = "eval" => (pc' = "done" /\ var_add' = var_add) ]_vars
    /\ [] (TrialRank >= 0)
    /\ [][ TrialRank' < TrialRank ]_vars

\* C10, its case: the trial is over after max_iter iterations
C10_Witness ==
    /\ pc = "done"
    /\ iteration = max_iter

----------------------------------------------------------------------------
(* Properties of the sweep.                                                *)

\* the trials whose error is the least of all
Least == { i \in 1..Len(trials) :
             \A j \in 1..Len(trials) :
                 RLe(trials[i].rmse_sq, trials[j].rmse_sq) }

\* the first of them in the order of the sweep
FirstLeast == CHOOSE i \in Least : \A j \in Least : i <= j

\* C7: the trials are run in sweep order (alpha ascending from the first
\* pacing percentage to 100, then run ascending from 1 to
\* max(1, runs_per_alpha)); when the sweep is over the best kept has the
\* least error of all trials and the alpha and run of the first trial, in
\* that order, with that error; and the best is replaced only by a trial
\* of strictly lower error.
C7_FirstBestWins ==
    /\ [] (mpc \in {"report", "done"} =>
              /\ Len(trials) = (101 - start_alpha) * repeats
              /\ \A i \in 1..Len(trials) :
                    /\ trials[i].alpha = start_alpha + ((i - 1) \div repeats)
                    /\ trials[i].run = 1 + ((i - 1) % repeats)
              /\ best # << >>
              /\ best[1].rmse_sq = trials[FirstLeast].rmse_sq
              /\ best[1].alpha = trials[FirstLeast].alpha
              /\ best[1].run = trials[FirstLeast].run)
    /\ [][ (best # << >> /\ best' # best) =>
               RLt(best'[1].rmse_sq, best[1].rmse_sq) ]_vars

\* C7, its case: the sweep is over; the best was found after the first
\* trial, and a later trial had the same error
C7_Witness ==
    /\ mpc = "done"
    /\ best # << >>
    /\ \E i \in 1..Len(trials) :
          /\ i > 1
          /\ trials[i].alpha = best[1].alpha
          /\ trials[i].run = best[1].run
          /\ \E j \in (i + 1)..Len(trials) :
                trials[j].rmse_sq = best[1].rmse_sq

====
